---------------------------- MODULE Spec2Model ----------------------------
(***************************************************************************)
(* Model of the Toto jackpot scraper (jackpot.js and its browser-automation*)
(* variant): the retry runner retryRequest, the normalisation function    *)
(* cleanJackpotValue, the sender sendTelegramMessage and the orchestrator  *)
(* scrapeAndNotify.                                                        *)
(*                                                                         *)
(* Text is modelled as a sequence of one-character strings.  The Cyrillic  *)
(* marker word of jackpot.js line 64 is written with the Latin letters     *)
(* l,e,v,a and the suffix of line 70 as " lv." (the suffix shares its      *)
(* first and third letter with the marker, as in the source).  A character *)
(* outside ASCII, and the vertical tab, is written as the one-element      *)
(* string of its code point, such as "U+00A0" for the no-break space.      *)
(***************************************************************************)
EXTENDS Integers, Sequences, FiniteSets, TLC

VARIABLES
    variant,    \* which program runs: "axios" (jackpot.js), "puppeteer", "harness"
    token,      \* process.env.TELEGRAM_BOT_TOKEN is set
    chatId,     \* process.env.TELEGRAM_CHAT_ID is set
    pc,         \* position of scrapeAndNotify (or of the caller of retryRequest)
    rpc,        \* position inside retryRequest
    op,         \* the requestFn the running retryRequest was given
    retries,    \* retryRequest's parameter retries
    attempt,    \* retryRequest's loop variable
    npc,        \* position inside the puppeteer navigation requestFn
    trace,      \* outcome of every requestFn invocation of the running retryRequest
    slept,      \* delays of the setTimeout sleeps of the running retryRequest
    diag,       \* retry diagnostics printed by the running retryRequest
    result,     \* value retryRequest returned
    thrown,     \* error retryRequest threw
    callLog,    \* every collaborator invocation of the run, in order
    raw,        \* jackpotValueRaw
    cleaned,    \* jackpotValueClean
    warned,     \* console.warn emitted by cleanJackpotValue
    message,    \* text handed to sendTelegramMessage
    report,     \* what the catch block printed
    exitCode,   \* process completion status: "running", "0" or "1"
    browser,    \* puppeteer browser: "none", "open", "closed"
    page,       \* the loaded document
    caught,     \* the error the catch block of scrapeAndNotify received
    delivered,  \* how many times the messaging endpoint accepted the message
    posted,     \* how every axios.post of the send stage ended, in order
    script,     \* outcomes a stubbed axios.post is set to produce, one per attempt
    firstRun    \* how the scripted call ended under the first of two backends

vars == <<variant, token, chatId, pc, rpc, op, retries, attempt, npc, trace,
          slept, diag, result, thrown, callLog, raw, cleaned, warned,
          message, report, exitCode, browser, page, caught, delivered,
          posted, script, firstRun>>

-----------------------------------------------------------------------------
(* Program constants *)

MAX_RETRIES == 3
RETRY_DELAY == 2000
LOW_BOUND == 1000
HIGH_BOUND == 100000000

(* Bounds of the model *)

\* largest retries argument tried by the retry harness
MaxRetriesArg == 3
\* number of tokens a generated raw extract is built from
MaxTokens == 3
\* number of times a returned value is handed to cleanJackpotValue in a row
MaxPasses == 3

-----------------------------------------------------------------------------
(* Text helpers *)

\* the class \s of a JavaScript regular expression, which is also what
\* String.prototype.trim removes: WhiteSpace and LineTerminator of ECMAScript
WhiteSpace ==
    {" ", "\t", "\n", "U+000B", "\f", "\r", "U+00A0", "U+1680",
     "U+2000", "U+2001", "U+2002", "U+2003", "U+2004", "U+2005", "U+2006",
     "U+2007", "U+2008", "U+2009", "U+200A", "U+2028", "U+2029", "U+202F",
     "U+205F", "U+3000", "U+FEFF"}
Digits == {"0", "1", "2", "3", "4", "5", "6", "7", "8", "9"}
Marker == <<"l", "e", "v", "a">>
Suffix == <<" ", "l", "v", ".">>

\* a text: a sequence of characters
Text == Seq(STRING)

IsSpace(c) == c \in WhiteSpace
IsDigit(c) == c \in Digits

\* String.prototype.indexOf: first index (1-based) of m in s, 0 when absent
IndexOf(s, m) ==
    LET hits == {i \in 1..(Len(s) - Len(m) + 1) : SubSeq(s, i, i + Len(m) - 1) = m}
    IN  IF hits = {} THEN 0 ELSE CHOOSE i \in hits : \A j \in hits : i <= j

\* s.split(m)[0]: the text before the first occurrence of m, s when m is absent
SplitFirst(s, m) ==
    IF IndexOf(s, m) = 0 THEN s ELSE SubSeq(s, 1, IndexOf(s, m) - 1)

\* s without its leading white space
DropSpace[s \in Text] ==
    IF \A i \in 1..Len(s) : IsSpace(s[i]) THEN <<>>
    ELSE SubSeq(s, CHOOSE i \in 1..Len(s) :
                       ~IsSpace(s[i]) /\ \A j \in 1..(i - 1) : IsSpace(s[j]),
                Len(s))

\* s.replace(/\s+/g, " "): the first character of every run of white space
\* becomes a space and the rest of the run goes; "" marks what goes
CollapseSpace[s \in Text] ==
    SelectSeq([i \in 1..Len(s) |->
                  IF ~IsSpace(s[i]) THEN s[i]
                  ELSE IF i > 1 /\ IsSpace(s[i - 1]) THEN "" ELSE " "],
              LAMBDA c : c # "")

\* s without its trailing white space
DropSpaceEnd[s \in Text] ==
    IF \A i \in 1..Len(s) : IsSpace(s[i]) THEN <<>>
    ELSE SubSeq(s, 1, CHOOSE i \in 1..Len(s) :
                          ~IsSpace(s[i]) /\ \A j \in (i + 1)..Len(s) : IsSpace(s[j]))

\* String.prototype.trim
Trim(s) == DropSpaceEnd[DropSpace[s]]

\* a digit test that also accepts the decimal separator
HasDigit_OrDot(s) == \E i \in 1..Len(s) : IsDigit(s[i]) \/ s[i] = "."

\* /\d/.test(s)
HasDigit(s) == \E i \in 1..Len(s) : IsDigit(s[i])

\* s.replace(/[^\d.]/g, "")
KeepDigitsAndDots[s \in Text] == SelectSeq(s, LAMBDA c : IsDigit(c) \/ c = ".")

\* the digits s starts with
DigitRun[s \in Text] ==
    IF \A i \in 1..Len(s) : IsDigit(s[i]) THEN s
    ELSE SubSeq(s, 1, (CHOOSE i \in 1..Len(s) :
                          ~IsDigit(s[i]) /\ \A j \in 1..(i - 1) : IsDigit(s[j])) - 1)

DigitValue(c) ==
    CASE c = "0" -> 0 [] c = "1" -> 1 [] c = "2" -> 2 [] c = "3" -> 3 [] c = "4" -> 4
      [] c = "5" -> 5 [] c = "6" -> 6 [] c = "7" -> 7 [] c = "8" -> 8 [] c = "9" -> 9

\* a run of digits without its leading zeros
Significant[s \in Text] ==
    IF \A i \in 1..Len(s) : s[i] = "0" THEN <<>>
    ELSE SubSeq(s, CHOOSE i \in 1..Len(s) : s[i] # "0" /\ \A j \in 1..(i - 1) : s[j] = "0",
                Len(s))

\* value of a run of at most nine digits
ShortValue[s \in Text] ==
    IF s = <<>> THEN 0
    ELSE ShortValue[SubSeq(s, 1, Len(s) - 1)] * 10 + DigitValue(s[Len(s)])

\* value of a run of digits, capped at 10 * HIGH_BOUND: a run of more than nine
\* significant digits is worth that or more, and compares with LOW_BOUND and
\* HIGH_BOUND as the cap does
RunValue[s \in Text] ==
    IF Len(Significant[s]) > 9 THEN 10 * HIGH_BOUND ELSE ShortValue[Significant[s]]

\* bits in the significand of the double parseFloat returns
SIGNIFICAND == 53

\* the least normal double is 2^-MIN_EXPONENT, and the least double below it
\* 2^-(MIN_EXPONENT + SIGNIFICAND - 1)
MIN_EXPONENT == 1022

\* the digits of a run, as numbers
DigitValues[s \in Text] == [i \in 1..Len(s) |-> DigitValue(s[i])]

\* the fraction 0.d written with at least SIGNIFICAND + 1 digits
Padded[d \in Seq(0..9)] ==
    [i \in 1..(IF Len(d) > SIGNIFICAND THEN Len(d) ELSE SIGNIFICAND + 1) |->
        IF i <= Len(d) THEN d[i] ELSE 0]

\* 1 - 0.d less one unit in the last place of d
Nines[d \in Seq(0..9)] == [i \in 1..Len(d) |-> 9 - d[i]]

\* the digits of the fraction of 2 * 0.d; a digit carries into the place before
\* it exactly when it is 5 or more, so 2 * 0.d >= 1 exactly when d[1] >= 5
DoubleDigits[d \in Seq(0..9)] ==
    [i \in 1..Len(d) |-> (2 * d[i] + IF i < Len(d) /\ d[i + 1] >= 5 THEN 1 ELSE 0) % 10]

\* 0.d doubled k times, for p = <<d, k>> with 0.d * 2^k < 1
Doubled[p \in Seq(0..9) \X Nat] ==
    IF p[2] = 0 THEN p[1] ELSE Doubled[<<DoubleDigits[p[1]], p[2] - 1>>]

\* 0.d * 2^m > 1, for p = <<d, m>>; a fraction with ten zeros in front is less
\* than 2^-30 and is doubled thirty times at once
ExceedsOne[p \in Seq(0..9) \X Nat] ==
    IF p[2] = 0 \/ \A i \in 1..Len(p[1]) : p[1][i] = 0 THEN FALSE
    ELSE IF p[2] >= 30 /\ Len(p[1]) >= 10 /\ \A i \in 1..10 : p[1][i] = 0
    THEN ExceedsOne[<<Doubled[<<p[1], 30>>], p[2] - 30>>]
    ELSE IF p[1][1] >= 5
    THEN p[2] > 1 \/ p[1][1] > 5 \/ \E i \in 2..Len(p[1]) : p[1][i] # 0
    ELSE ExceedsOne[<<DoubleDigits[p[1]], p[2] - 1>>]

\* 0.d * 2^m < 1, for p = <<d, m>>
BelowOne[p \in Seq(0..9) \X Nat] ==
    IF p[2] = 0 THEN TRUE
    ELSE IF p[1] # <<>> /\ p[1][1] >= 5 THEN FALSE
    ELSE BelowOne[<<DoubleDigits[p[1]], p[2] - 1>>]

\* the exponent of v as a double: 2^Exponent[v] <= v < 2^(Exponent[v] + 1), for
\* 1 <= v < 10 * HIGH_BOUND
Exponent[v \in Nat] == CHOOSE k \in 0..29 : 2^k <= v /\ v < 2 * 2^k

\* the double nearest to whole + 0.d, ties to the even significand, for
\* p = <<whole, d>>: int when frac is FALSE, strictly between int and int + 1
\* when frac is TRUE. With 2^-m half the distance between the doubles next to
\* whole, a fraction of at most 2^-m rounds down to whole and one of at least
\* 1 - 2^-m rounds up to whole + 1. Below 1 a fraction of at most half the
\* least double underflows to 0. At the cap int stands for every value of
\* 10 * HIGH_BOUND or more.
NearestDouble[p \in Nat \X Seq(0..9)] ==
    IF p[1] >= 10 * HIGH_BOUND THEN [nan |-> FALSE, int |-> p[1], frac |-> FALSE]
    ELSE IF p[1] = 0
    THEN IF ~ExceedsOne[<<p[2], MIN_EXPONENT + SIGNIFICAND>>]
         THEN [nan |-> FALSE, int |-> 0, frac |-> FALSE]
         ELSE IF BelowOne[<<Nines[Padded[p[2]]], SIGNIFICAND + 1>>]
         THEN [nan |-> FALSE, int |-> 1, frac |-> FALSE]
         ELSE [nan |-> FALSE, int |-> 0, frac |-> TRUE]
    ELSE IF ~ExceedsOne[<<p[2], SIGNIFICAND - Exponent[p[1]]>>]
    THEN [nan |-> FALSE, int |-> p[1], frac |-> FALSE]
    ELSE IF BelowOne[<<Nines[Padded[p[2]]], SIGNIFICAND - Exponent[p[1]]>>]
    THEN [nan |-> FALSE, int |-> p[1] + 1, frac |-> FALSE]
    ELSE [nan |-> FALSE, int |-> p[1], frac |-> TRUE]

\* parseFloat on a text of digits and dots: the longest prefix of the form
\* digits, digits "." digits* or "." digits+, read as the nearest double; NaN
\* when there is no such prefix
ParseFloat(s) ==
    LET ip   == DigitRun[s]
        rest == SubSeq(s, Len(ip) + 1, Len(s))
        fp   == IF rest # <<>> /\ Head(rest) = "." THEN DigitRun[Tail(rest)] ELSE <<>>
    IN  IF ip = <<>> /\ fp = <<>>
        THEN [nan |-> TRUE, int |-> 0, frac |-> FALSE]
        ELSE NearestDouble[<<RunValue[ip], DigitValues[fp]>>]

\* numericValue <= n
LessThan_Inclusive(f, n) == ~f.nan /\ (f.int < n \/ (f.int = n /\ ~f.frac))

\* numericValue < n and numericValue > n of jackpot.js; both are false for NaN
LessThan(f, n) == ~f.nan /\ f.int < n
GreaterThan(f, n) == ~f.nan /\ (f.int > n \/ (f.int = n /\ f.frac))

-----------------------------------------------------------------------------
(* Errors and values *)

NoError == [name |-> "none", msg |-> "none", code |-> "none",
            hasResponse |-> FALSE, status |-> 0, at |-> 0]

\* nothing printed by the catch block
NoReport == [name |-> "none", msg |-> "none", code |-> "none",
             hasResponse |-> FALSE, status |-> 0, data |-> "none",
             stack |-> <<>>, at |-> 0]

\* new Error(msg): no code, no response
PlainError(m, i) == [name |-> "Error", msg |-> m, code |-> "none",
                     hasResponse |-> FALSE, status |-> 0, at |-> i]

\* an axios network error: a code, no response
NetError(c, i) == [name |-> "AxiosError", msg |-> "network", code |-> c,
                   hasResponse |-> FALSE, status |-> 0, at |-> i]

\* an axios error carrying the upstream response
HttpError(st, i) == [name |-> "AxiosError", msg |-> "status",
                     code |-> IF st >= 500 THEN "ERR_BAD_RESPONSE" ELSE "ERR_BAD_REQUEST",
                     hasResponse |-> TRUE, status |-> st, at |-> i]

\* a puppeteer error: TimeoutError, or a navigation error
PuppeteerError(n, m, i) == [name |-> n, msg |-> m, code |-> "none",
                            hasResponse |-> FALSE, status |-> 0, at |-> i]

NoPage == [loaded |-> FALSE, hasElement |-> FALSE, text |-> <<>>, isNull |-> FALSE]
NoValue == [page |-> NoPage, ok |-> FALSE, at |-> 0]

Value(p, k, i) == [page |-> p, ok |-> k, at |-> i]

Resolved(v) == [kind |-> "value", v |-> v, e |-> NoError]
Rejected(e) == [kind |-> "error", v |-> NoValue, e |-> e]


-----------------------------------------------------------------------------
(* cleanJackpotValue, jackpot.js lines 58-90 *)

\* a JavaScript value handed to cleanJackpotValue: a string, or null
Str(s) == [isNull |-> FALSE, text |-> s]
Null == [isNull |-> TRUE, text |-> <<>>]

\* a test for null only, which lets the empty string through
IsFalsy_NullOnly(rawValue) == rawValue.isNull

\* !rawValue
IsFalsy(rawValue) == rawValue.isNull \/ rawValue.text = <<>>

\* rawValue.replace(marker, ""): the marker goes, the text after it stays
Truncate_MarkerOnly(s) ==
    IF IndexOf(s, Marker) = 0 THEN s
    ELSE SubSeq(s, 1, IndexOf(s, Marker) - 1)
             \o SubSeq(s, IndexOf(s, Marker) + Len(Marker), Len(s))

\* rawValue.split(marker)[0]
Truncate(s) == SplitFirst(s, Marker)

\* cleaned.replace(/\s+/g, " ").trim()
NormalizeSpace(s) == Trim(CollapseSpace[s])

\* cleaned + suffix
AddSuffix(s) == s \o Suffix

\* the console.warn of lines 78-87: "low", "high" or "none"
Verdict(c) ==
    LET numericValue == ParseFloat(KeepDigitsAndDots[c])
    IN  IF LessThan(numericValue, LOW_BOUND) THEN "low"
        ELSE IF GreaterThan(numericValue, HIGH_BOUND) THEN "high"
        ELSE "none"

Threw(e) == [threw |-> TRUE, err |-> e, value |-> <<>>, warn |-> "none"]
Returned(c, w) == [threw |-> FALSE, err |-> NoError, value |-> c, warn |-> w]

\* a range check that rejects the value instead of warning
cleanJackpotValue_RejectsOutOfRange(rawValue) ==
    IF IsFalsy(rawValue) THEN Threw(PlainError("Raw jackpot value is empty", 0))
    ELSE LET c == AddSuffix(NormalizeSpace(Truncate(rawValue.text)))
         IN  IF ~HasDigit(c) THEN Threw(PlainError("Cleaned value contains no digits", 0))
             ELSE IF Verdict(c) # "none" THEN Threw(PlainError("Value out of range", 0))
             ELSE Returned(c, "none")

cleanJackpotValue(rawValue) ==
    IF IsFalsy(rawValue) THEN Threw(PlainError("Raw jackpot value is empty", 0))
    ELSE LET c == AddSuffix(NormalizeSpace(Truncate(rawValue.text)))
         IN  IF ~HasDigit(c) THEN Threw(PlainError("Cleaned value contains no digits", 0))
             ELSE Returned(c, Verdict(c))

-----------------------------------------------------------------------------
(* retryRequest, jackpot.js lines 24-51 *)

RetriableCodes == {"ECONNABORTED", "ETIMEDOUT", "ENOTFOUND", "ECONNREFUSED"}

\* variants of isRetriableError with a wrong status comparison
IsRetriableError_Above500(e) ==
    e.code \in RetriableCodes \/ (e.hasResponse /\ e.status > 500)

IsRetriableError_From400(e) ==
    e.code \in RetriableCodes \/ (e.hasResponse /\ e.status >= 400)

\* isRetriableError of jackpot.js
IsRetriableError(e) ==
    e.code \in RetriableCodes \/ (e.hasResponse /\ e.status >= 500)

\* isRetriableError of the puppeteer variant
IsRetriableErrorP(e) ==
    e.name = "TimeoutError" \/ e.msg = "navigating" \/ e.code = "ECONNREFUSED"

Retriable(e) ==
    IF variant = "puppeteer" THEN IsRetriableErrorP(e) ELSE IsRetriableError(e)

\* a loop that allows one attempt too many
IsLastAttempt_OneMore == attempt = retries + 1

\* attempt === (retries || MAX_RETRIES): a retries argument of 0 is taken as unset
IsLastAttempt_ZeroDefaults ==
    attempt = (IF retries = 0 THEN MAX_RETRIES ELSE retries)

\* attempt === retries
IsLastAttempt == attempt = retries

\* a linear backoff instead of the exponential one
Delay_Linear(a) == RETRY_DELAY * (a + 1)

\* RETRY_DELAY * Math.pow(2, attempt)
Delay(a) == RETRY_DELAY * 2^a

\* the two console.log lines before the sleep
Diagnostic(e) == [attempt |-> attempt + 1, total |-> retries + 1,
                  at |-> e.at, delay |-> Delay(attempt)]

\* a runner that wraps the error it gives up on
Rethrown_Wrapped(e) == PlainError("Request failed", e.at)

\* the error the catch block rethrows
Rethrown(e) == e

\* a try block that awaits the operation and forgets to return its value
ReturnValue_Dropped(v) == NoValue

\* the value the try block returns
ReturnValue(v) == v

\* a catch block that prints the retry diagnostic before it decides to give up
Settle_DiagBeforeThrow(o) ==
    /\ trace' = Append(trace, o)
    /\ IF o.kind = "value"
       THEN /\ rpc' = "returned"
            /\ result' = ReturnValue(o.v)
            /\ UNCHANGED <<thrown, slept, diag>>
       ELSE IF IsLastAttempt \/ ~Retriable(o.e)
       THEN /\ rpc' = "threw"
            /\ thrown' = Rethrown(o.e)
            /\ diag' = Append(diag, Diagnostic(o.e))
            /\ UNCHANGED <<result, slept>>
       ELSE /\ rpc' = "sleep"
            /\ diag' = Append(diag, Diagnostic(o.e))
            /\ slept' = Append(slept, Delay(attempt))
            /\ UNCHANGED <<result, thrown>>
    /\ UNCHANGED <<attempt, retries, op>>

\* what follows `await requestFn()`: return the value, or the catch block
Settle(o) ==
    /\ trace' = Append(trace, o)
    /\ IF o.kind = "value"
       THEN /\ rpc' = "returned"
            /\ result' = ReturnValue(o.v)
            /\ UNCHANGED <<thrown, slept, diag>>
       ELSE IF IsLastAttempt \/ ~Retriable(o.e)
       THEN /\ rpc' = "threw"
            /\ thrown' = Rethrown(o.e)
            /\ UNCHANGED <<result, slept, diag>>
       ELSE /\ rpc' = "sleep"
            /\ diag' = Append(diag, Diagnostic(o.e))
            /\ slept' = Append(slept, Delay(attempt))
            /\ UNCHANGED <<result, thrown>>
    /\ UNCHANGED <<attempt, retries, op>>

\* entering retryRequest(requestFn, r): attempt = 0, nothing invoked yet
EnterRetry(requestFn, r) ==
    /\ rpc' = "call"
    /\ op' = requestFn
    /\ retries' = r
    /\ attempt' = 0
    /\ trace' = <<>>
    /\ slept' = <<>>
    /\ diag' = <<>>
    /\ result' = NoValue
    /\ thrown' = NoError

\* failures an operation may end in
NetCodes == RetriableCodes \cup {"ECONNRESET"}
Statuses == {404, 499, 500, 503}
AllErrors(i) ==
    {NetError(c, i) : c \in NetCodes} \cup {HttpError(st, i) : st \in Statuses}
        \cup {PlainError("other", i)}

\* outcomes of the mock operation of the retry harness
MockOutcomes(i) ==
    {Resolved(Value(NoPage, TRUE, i))} \cup {Rejected(e) : e \in AllErrors(i)}


-----------------------------------------------------------------------------
(* Raw extracts *)

RawTypical == <<"5", " ", "0", "0", "0", " ", "0", "0", "0", " ", "l", "e", "v", "a">>
RawExtraSpace == <<" ", " ", "3", " ", " ", " ", "5", "0", "0", " ", " ", " ", "0", "0", "0", " ", " ", " ", "l", "e", "v", "a", " ", " ">>
RawDotted == <<"1", ".", "2", "3", "4", ".", "5", "6", "7", " ", "l", "e", "v", "a">>
RawNoMarker == <<"4", " ", "0", "0", "0", " ", "0", "0", "0">>
RawTrailing == <<"6", " ", "0", "0", "0", " ", "0", "0", "0", " ", "l", "e", "v", "a", " ", "a", "n", "d", " ", "7">>
RawNoDigits == <<"n", "o", " ", "l", "e", "v", "a">>
RawEmpty == <<>>
RawBlank == <<" ", "\t", " ">>
RawDigitAfter == <<"l", "e", "v", "a", " ", "5">>
RawLow == <<"5", "0", "0", " ", "l", "e", "v", "a">>
RawHigh == <<"2", "0", "0", "0", "0", "0", "0", "0", "0", " ", "l", "e", "v", "a">>
\* the values around the two limits of the range check
RawBelowLow == <<"9", "9", "9", " ", "l", "e", "v", "a">>
RawAtLow == <<"1", " ", "0", "0", "0", " ", "l", "e", "v", "a">>
RawAtHigh == <<"1", "0", "0", " ", "0", "0", "0", " ", "0", "0", "0", " ", "l", "e", "v", "a">>
RawAboveHigh == <<"1", "0", "0", " ", "0", "0", "0", " ", "0", "0", "1", " ", "l", "e", "v", "a">>
RawAtHighAndHalf == <<"1", "0", "0", "0", "0", "0", "0", "0", "0", ".", "5">>
\* an element text that already ends in the abbreviation, with a tab and a
\* double space inside
RawSuffixed == <<"5", "\t", "0", "0", "0", " ", " ", "0", "0", "0", " ", "l", "v", ".">>
\* element texts as markup produces them: line ends with carriage returns
\* around the value, no-break spaces between the digit groups, a form feed
\* and a byte order mark
RawCarriageReturns == <<"\r", "\n", " ", "5", " ", "0", "0", "0", " ", "\r", "\n">>
RawNoBreakSpaces == <<"5", "U+00A0", "0", "0", "0", "U+00A0", "0", "0", "0", " ", "l", "e", "v", "a">>
RawFormFeed == <<"U+FEFF", "5", "\f", "0", "0", "0", "U+3000", "l", "e", "v", "a">>
\* values a double cannot tell from a limit of the range check, and a value of
\* ten digits
RawRoundedHigh == <<"1", "0", "0", "0", "0", "0", "0", "0", "0", ".", "0", "0", "0", "0", "0", "0", "0", "0", "1", " ", "l", "e", "v", "a">>
RawRoundedLow == <<"9", "9", "9", ".", "9", "9", "9", "9", "9", "9", "9", "9", "9", "9", "9", "9", "9", "9", "9", "9", " ", "l", "e", "v", "a">>
RawBillions == <<"3", " ", "0", "0", "0", " ", "0", "0", "0", " ", "0", "0", "0", " ", "l", "e", "v", "a">>

RawSamples == {RawTypical, RawExtraSpace, RawDotted, RawNoMarker, RawTrailing, RawNoDigits, RawEmpty, RawBlank, RawDigitAfter, RawLow, RawHigh,
               RawBelowLow, RawAtLow, RawAtHigh, RawAboveHigh, RawAtHighAndHalf, RawSuffixed,
               RawCarriageReturns, RawNoBreakSpaces, RawFormFeed,
               RawRoundedHigh, RawRoundedLow, RawBillions}

\* pieces a generated raw extract is built from
Tokens == {<<"5">>, <<" ">>, <<"\t">>, <<"U+00A0">>, <<"x">>, <<".">>, <<"l">>, Marker}

RECURSIVE Concat(_)
Concat(ts) == IF ts = <<>> THEN <<>> ELSE Head(ts) \o Concat(Tail(ts))

RawGenerated ==
    {Concat(ts) : ts \in UNION {[1..n -> Tokens] : n \in 0..MaxTokens}}

\* what the page holds at the selector: no element, or an element with a text
ElementAbsent == [loaded |-> TRUE, hasElement |-> FALSE, text |-> <<>>, isNull |-> FALSE]
ElementWith(t) == [loaded |-> TRUE, hasElement |-> TRUE, text |-> t, isNull |-> FALSE]
\* puppeteer only: the selector matched, then querySelector found nothing
ElementGone == [loaded |-> TRUE, hasElement |-> TRUE, text |-> <<>>, isNull |-> TRUE]
Pages == {ElementAbsent} \cup {ElementWith(t) : t \in RawSamples}

-----------------------------------------------------------------------------
(* The operations handed to retryRequest *)

\* outcomes of axios.get, jackpot.js lines 144-150
GetOutcomes(i) ==
    {Resolved(Value(p, TRUE, i)) : p \in Pages}
        \cup {Rejected(e) : e \in {NetError("ETIMEDOUT", i), NetError("ECONNABORTED", i),
                                   HttpError(503, i), HttpError(404, i)}}

\* outcomes of axios.post, jackpot.js lines 98-111: a response whose body has
\* ok true or false, or a failure
PostOutcomes(i) ==
    {Resolved(Value(NoPage, k, i)) : k \in BOOLEAN}
        \cup {Rejected(e) : e \in {NetError("ECONNABORTED", i), HttpError(500, i),
                                   HttpError(400, i)}}

\* the requestFn of sendTelegramMessage, jackpot.js lines 97-120
SendRequestFn(o) ==
    IF o.kind = "value" /\ ~o.v.ok
    THEN Rejected(PlainError("Telegram API returned error", o.v.at))
    ELSE o

\* the requestFn of the puppeteer sendTelegramMessage, part_001 lines 237-243:
\* no check of the body and no return statement, so it resolves with undefined
\* whatever the endpoint answered
SendRequestFnP(o) == IF o.kind = "value" THEN Resolved(NoValue) ELSE o

Outcomes(f, i) ==
    CASE f = "fetch" -> GetOutcomes(i)
      [] f = "send" -> PostOutcomes(i)
      [] OTHER -> MockOutcomes(i)

RequestFn(f, o) ==
    CASE f = "send" /\ variant = "axios" -> SendRequestFn(o)
      [] f = "send" /\ variant = "puppeteer" -> SendRequestFnP(o)
      [] OTHER -> o

-----------------------------------------------------------------------------
(* Steps of retryRequest *)

\* no call has ended yet
NoRun == [ended |-> "none", invocations |-> 0, thrown |-> NoError]

runnerVars == <<rpc, op, retries, attempt, trace, slept, diag, result, thrown>>
runVars == <<variant, token, chatId, script, firstRun, pc, raw, cleaned, warned, message, report,
             exitCode, browser, page, caught>>

\* the loop body starts: requestFn is invoked (line 27)
RetryInvoke ==
    /\ rpc = "call"
    /\ rpc' = "await"
    /\ IF op = "navigate"
       THEN npc' = "goto" /\ callLog' = Append(callLog, "goto")
       ELSE callLog' = Append(callLog, op) /\ UNCHANGED npc
    /\ UNCHANGED <<op, retries, attempt, trace, slept, diag, result, thrown>>
    /\ UNCHANGED runVars
    /\ UNCHANGED <<delivered, posted>>

\* whether the messaging endpoint took the message when axios.post ends in o:
\* it did when it answers ok, and it may have when the client timed out waiting
Accepted(f, o) ==
    IF f # "send" THEN {FALSE}
    ELSE IF o.kind = "value" THEN {o.v.ok}
    ELSE IF o.e.code = "ECONNABORTED" THEN BOOLEAN
    ELSE {FALSE}

\* requestFn settles: lines 27-48
RequestSettles ==
    /\ rpc = "await"
    /\ op # "navigate"
    /\ \E o \in Outcomes(op, attempt) :
          /\ Settle(RequestFn(op, o))
          /\ \E a \in Accepted(op, o) :
                delivered' = IF a THEN delivered + 1 ELSE delivered
          /\ posted' = IF op = "send" THEN Append(posted, o) ELSE posted
    /\ UNCHANGED <<callLog, npc>>
    /\ UNCHANGED runVars

\* the setTimeout of line 48 fires: attempt++ and the next iteration
TimerFires ==
    /\ rpc = "sleep"
    /\ attempt' = attempt + 1
    /\ rpc' = "call"
    /\ UNCHANGED <<op, retries, trace, slept, diag, result, thrown, callLog, npc>>
    /\ UNCHANGED runVars
    /\ UNCHANGED <<delivered, posted>>

-----------------------------------------------------------------------------
(* A harness calling retryRequest(requestFn, r) of jackpot.js, lines 24-51,  *)
(* with an operation that may end in any outcome at each invocation         *)

InitCommon ==
    /\ npc = "idle"
    /\ trace = <<>>
    /\ slept = <<>>
    /\ diag = <<>>
    /\ result = NoValue
    /\ thrown = NoError
    /\ callLog = <<>>
    /\ raw = Null
    /\ cleaned = <<>>
    /\ warned = "none"
    /\ message = <<>>
    /\ report = NoReport
    /\ caught = NoError
    /\ page = NoPage
    /\ exitCode = "running"
    /\ browser = "none"
    /\ attempt = 0
    /\ delivered = 0
    /\ posted = <<>>
    /\ script = <<>>
    /\ firstRun = NoRun

InitRetry ==
    /\ variant = "harness"
    /\ token = TRUE
    /\ chatId = TRUE
    /\ pc = "harness"
    /\ rpc = "call"
    /\ op = "mock"
    /\ retries \in 0..MaxRetriesArg
    /\ InitCommon

NextRetry == RetryInvoke \/ RequestSettles \/ TimerFires

SpecRetry == InitRetry /\ [][NextRetry]_vars


-----------------------------------------------------------------------------
(* scrapeAndNotify, jackpot.js lines 124-207 *)

\* !token && !chatId: only the absence of both is caught
CredentialsMissing_BothAbsent == ~token /\ ~chatId

\* !token || !chatId
CredentialsMissing == ~token \/ ~chatId

\* the functions awaiting the requestFn of a stage when it fails, innermost
\* first: what error.stack holds of jackpot.js for an error raised there
CallPath(f) ==
    IF f = "send"
    THEN <<"requestFn of sendTelegramMessage", "retryRequest", "sendTelegramMessage",
           "scrapeAndNotify">>
    ELSE <<"requestFn of scrapeAndNotify", "retryRequest", "scrapeAndNotify">>

\* error.stack of the error e caught from stage f. An error made by new Error
\* in jackpot.js has the frames of its throw statement: line 114 in the
\* requestFn of sendTelegramMessage, line 160 in scrapeAndNotify, lines 60 and
\* 74 in cleanJackpotValue. An axios error is made inside axios, in the
\* callback of the request, and has the frames of axios; whether the awaiting
\* functions follow them is up to the axios installed, which appends them in
\* some versions and not in others
Stacks(e, f) ==
    IF e.name = "AxiosError" THEN {<<"axios">>, <<"axios">> \o CallPath(f)}
    ELSE IF e.msg = "Telegram API returned error" THEN {CallPath("send")}
    ELSE IF e.msg = "Could not find element" THEN {<<"scrapeAndNotify">>}
    ELSE {<<"cleanJackpotValue", "scrapeAndNotify">>}

\* error.response.data of the error e caught from stage f: the body the
\* upstream sent with the failure status, a page of the site or the JSON of
\* the messaging endpoint, or nothing
Bodies(e, f) ==
    IF ~e.hasResponse THEN {"none"}
    ELSE IF f = "send" THEN {"", "endpoint JSON"}
    ELSE {"", "site HTML"}

\* the failure report of the catch block, lines 184-203: constructor name,
\* message, the HTTP status and the response data when error.response is set,
\* the code when set, and the stack trace
Report(e, d, st) == [name |-> e.name, msg |-> e.msg,
                     code |-> e.code, hasResponse |-> e.hasResponse,
                     status |-> IF e.hasResponse THEN e.status ELSE 0,
                     data |-> IF e.hasResponse THEN d ELSE "none",
                     stack |-> st, at |-> e.at]

\* the error of lines 160-163
ElementNotFound == PlainError("Could not find element", 0)

\* the template of line 174 around the cleaned value
Format(c) == <<"*">> \o c \o <<"*">>

\* process.exit(0) where the failure should be signalled
FailureStatus_Zero == "0"

\* the status of process.exit(1), lines 134 and 205
FailureStatus == "1"

\* a failure that sends the run back to its start instead of ending it
Throw_Restart(e) ==
    /\ pc' = "start"
    /\ caught' = e

\* an exception reaches the catch block of line 183
Throw(e) ==
    /\ pc' = "catch"
    /\ caught' = e

\* lines 124-151: the credential check, then the page fetch starts
Start ==
    /\ pc = "start"
    /\ IF CredentialsMissing
       THEN /\ pc' = "exited"
            /\ exitCode' = FailureStatus
            /\ UNCHANGED runnerVars
       ELSE /\ pc' = "fetching"
            /\ EnterRetry("fetch", MAX_RETRIES)
            /\ UNCHANGED exitCode
    /\ UNCHANGED <<variant, token, chatId, delivered, posted, script, firstRun, npc, callLog, raw, cleaned, warned,
                   message, report, browser, page, caught>>

\* line 143: retryRequest returned the response; data is the page
FetchReturned ==
    /\ pc = "fetching"
    /\ rpc = "returned"
    /\ page' = result.page
    /\ pc' = "locating"
    /\ UNCHANGED <<variant, token, chatId, delivered, posted, script, firstRun, npc, callLog, raw, cleaned, warned,
                   message, report, exitCode, browser, caught>>
    /\ UNCHANGED runnerVars

\* lines 155-167: the element lookup
Locate ==
    /\ pc = "locating"
    /\ callLog' = Append(callLog, "locate")
    /\ IF ~page.hasElement
       THEN Throw(ElementNotFound) /\ UNCHANGED raw
       ELSE /\ raw' = Str(page.text)
            /\ pc' = "cleaning"
            /\ UNCHANGED caught
    /\ UNCHANGED <<variant, token, chatId, delivered, posted, script, firstRun, npc, cleaned, warned, message, report,
                   exitCode, browser, page>>
    /\ UNCHANGED runnerVars

\* lines 170-179: cleanJackpotValue, the message, and the send starts
Clean ==
    /\ pc = "cleaning"
    /\ callLog' = Append(callLog, "clean")
    /\ LET r == cleanJackpotValue(raw)
       IN  IF r.threw
           THEN /\ Throw(r.err)
                /\ UNCHANGED <<cleaned, warned, message>>
                /\ UNCHANGED runnerVars
           ELSE /\ cleaned' = r.value
                /\ warned' = r.warn
                /\ message' = Format(r.value)
                /\ pc' = "sending"
                /\ EnterRetry("send", MAX_RETRIES)
                /\ UNCHANGED caught
    /\ UNCHANGED <<variant, token, chatId, delivered, posted, script, firstRun, npc, raw, report, exitCode, browser, page>>

\* lines 179-182: sendTelegramMessage returned; the function ends
SendReturned ==
    /\ pc = "sending"
    /\ rpc = "returned"
    /\ pc' = "done"
    /\ exitCode' = "0"
    /\ UNCHANGED <<variant, token, chatId, delivered, posted, script, firstRun, npc, callLog, raw, cleaned, warned,
                   message, report, browser, page, caught>>
    /\ UNCHANGED runnerVars

\* retryRequest threw inside the try block: the error reaches the catch block
RunnerThrew ==
    /\ pc \in {"fetching", "sending"}
    /\ rpc = "threw"
    /\ Throw(thrown)
    /\ UNCHANGED <<variant, token, chatId, delivered, posted, script, firstRun, npc, callLog, raw, cleaned, warned,
                   message, report, exitCode, browser, page>>
    /\ UNCHANGED runnerVars

\* lines 183-206: the report and process.exit(1)
CatchBlock ==
    /\ pc = "catch"
    /\ \E d \in Bodies(caught, op) : \E st \in Stacks(caught, op) :
          report' = Report(caught, d, st)
    /\ exitCode' = FailureStatus
    /\ pc' = "exited"
    /\ UNCHANGED <<variant, token, chatId, delivered, posted, script, firstRun, npc, callLog, raw, cleaned, warned,
                   message, browser, page, caught>>
    /\ UNCHANGED runnerVars

Init ==
    /\ variant = "axios"
    /\ token \in BOOLEAN
    /\ chatId \in BOOLEAN
    /\ pc = "start"
    /\ rpc = "idle"
    /\ op = "none"
    /\ retries = 0
    /\ InitCommon

Next ==
    \/ Start
    \/ RetryInvoke
    \/ RequestSettles
    \/ TimerFires
    \/ FetchReturned
    \/ Locate
    \/ Clean
    \/ SendReturned
    \/ RunnerThrew
    \/ CatchBlock

Spec == Init /\ [][Next]_vars

\* every await of the run completes: the request settles, the timer fires
FairSpec == Spec /\ WF_vars(Next)

-----------------------------------------------------------------------------
(* The run from the captured element text on: the state of jackpot.js after a *)
(* first-attempt fetch and a successful lookup, for every generated raw text  *)

InitClean ==
    /\ variant = "axios"
    /\ token = TRUE
    /\ chatId = TRUE
    /\ pc = "cleaning"
    /\ rpc = "returned"
    /\ op = "fetch"
    /\ retries = MAX_RETRIES
    /\ attempt = 0
    /\ npc = "idle"
    /\ \E t \in RawSamples \cup RawGenerated :
          /\ page = ElementWith(t)
          /\ raw = Str(t)
          /\ result = Value(ElementWith(t), TRUE, 0)
          /\ trace = <<Resolved(Value(ElementWith(t), TRUE, 0))>>
    /\ slept = <<>>
    /\ diag = <<>>
    /\ thrown = NoError
    /\ callLog = <<"fetch", "locate">>
    /\ cleaned = <<>>
    /\ warned = "none"
    /\ message = <<>>
    /\ report = NoReport
    /\ caught = NoError
    /\ exitCode = "running"
    /\ browser = "none"
    /\ delivered = 0
    /\ posted = <<>>
    /\ script = <<>>
    /\ firstRun = NoRun

NextClean ==
    \/ Clean
    \/ RetryInvoke
    \/ RequestSettles
    \/ TimerFires
    \/ SendReturned
    \/ RunnerThrew
    \/ CatchBlock

SpecClean == InitClean /\ [][NextClean]_vars

-----------------------------------------------------------------------------
(* A harness calling cleanJackpotValue(input) of jackpot.js, lines 58-90,  *)
(* and calling it again on the value it returned                           *)

CleanerInputs == {Null} \cup {Str(t) : t \in RawSamples \cup RawGenerated}

InitCleaner ==
    /\ variant = "harness"
    /\ token = TRUE
    /\ chatId = TRUE
    /\ pc = "call"
    /\ rpc = "idle"
    /\ op = "none"
    /\ retries = 0
    /\ attempt = 0
    /\ npc = "idle"
    /\ raw \in CleanerInputs
    /\ trace = <<>>
    /\ slept = <<>>
    /\ diag = <<>>
    /\ result = NoValue
    /\ thrown = NoError
    /\ callLog = <<>>
    /\ cleaned = <<>>
    /\ warned = "none"
    /\ message = <<>>
    /\ report = NoReport
    /\ caught = NoError
    /\ page = NoPage
    /\ exitCode = "running"
    /\ browser = "none"
    /\ delivered = 0
    /\ posted = <<>>
    /\ script = <<>>
    /\ firstRun = NoRun

\* cleanJackpotValue(raw) returns or throws
CleanerCall ==
    /\ pc = "call"
    /\ callLog' = Append(callLog, "clean")
    /\ LET r == cleanJackpotValue(raw)
       IN  IF r.threw
           THEN /\ pc' = "threw"
                /\ caught' = r.err
                /\ UNCHANGED <<cleaned, warned>>
           ELSE /\ pc' = "returned"
                /\ cleaned' = r.value
                /\ warned' = r.warn
                /\ UNCHANGED caught
    /\ UNCHANGED <<variant, token, chatId, delivered, posted, script, firstRun, npc, raw, message, report, exitCode,
                   browser, page>>
    /\ UNCHANGED runnerVars

\* the returned value becomes the next input
CleanerFeedBack ==
    /\ pc = "returned"
    /\ Len(callLog) < MaxPasses
    /\ raw' = Str(cleaned)
    /\ pc' = "call"
    /\ UNCHANGED <<variant, token, chatId, delivered, posted, script, firstRun, npc, callLog, cleaned, warned, message,
                   report, exitCode, browser, page, caught>>
    /\ UNCHANGED runnerVars

NextCleaner == CleanerCall \/ CleanerFeedBack

SpecCleaner == InitCleaner /\ [][NextCleaner]_vars

-----------------------------------------------------------------------------
(* The browser-automation variant of the program *)

\* cleanJackpotValue of the puppeteer variant: no range warning
cleanJackpotValueP(rawValue) ==
    IF IsFalsy(rawValue) THEN Threw(PlainError("Raw jackpot value is empty", 0))
    ELSE LET c == AddSuffix(NormalizeSpace(Truncate(rawValue.text)))
         IN  IF ~HasDigit(c) THEN Threw(PlainError("Invalid value", 0))
             ELSE Returned(c, "none")

PagesP == {ElementAbsent, ElementGone, ElementWith(RawTypical), ElementWith(RawNoDigits)}

\* outcomes of page.goto
GotoOutcomes(i) ==
    {Resolved(Value(p, TRUE, i)) : p \in PagesP}
        \cup {Rejected(e) : e \in {PuppeteerError("TimeoutError", "Navigation timeout", i),
                                   PuppeteerError("Error", "navigating", i),
                                   PuppeteerError("Error", "net::ERR_NAME_NOT_RESOLVED", i)}}

\* outcomes of puppeteer.launch, browser.newPage, page.setUserAgent and
\* browser.close: each resolves, or rejects with an error of puppeteer
LaunchOutcomes ==
    {Resolved(NoValue),
     Rejected(PuppeteerError("Error", "Failed to launch the browser process", 0))}
NewPageOutcomes ==
    {Resolved(NoValue),
     Rejected(PuppeteerError("Error", "Protocol error (Target.createTarget)", 0))}
SetUserAgentOutcomes ==
    {Resolved(NoValue),
     Rejected(PuppeteerError("Error", "Protocol error (Network.setUserAgentOverride)", 0))}
CloseOutcomes ==
    {Resolved(NoValue),
     Rejected(PuppeteerError("Error", "Protocol error (Browser.close)", 0))}

\* the status of a process that ends on a rejection nothing handles: the
\* promise of scrapeAndNotify() at line 300 has no catch
UnhandledRejectionStatus == "1"

\* lines 247-256: the credential check, then puppeteer.launch is called
PStart ==
    /\ pc = "start"
    /\ IF CredentialsMissing
       THEN /\ pc' = "exited"
            /\ exitCode' = FailureStatus
       ELSE /\ pc' = "launching"
            /\ UNCHANGED exitCode
    /\ UNCHANGED <<variant, token, chatId, delivered, posted, script, firstRun, npc, callLog, raw, cleaned, warned,
                   message, report, page, caught, browser>>
    /\ UNCHANGED runnerVars

\* puppeteer.launch settles, line 256: it is awaited before the try block, so a
\* rejection is handled by nobody and ends the process; otherwise
\* browser.newPage is called
PLaunch ==
    /\ pc = "launching"
    /\ \E o \in LaunchOutcomes :
          IF o.kind = "value"
          THEN /\ browser' = "open"
               /\ pc' = "newPage"
               /\ UNCHANGED exitCode
          ELSE /\ pc' = "exited"
               /\ exitCode' = UnhandledRejectionStatus
               /\ UNCHANGED browser
    /\ UNCHANGED <<variant, token, chatId, delivered, posted, script, firstRun, npc, callLog, raw, cleaned, warned,
                   message, report, page, caught>>
    /\ UNCHANGED runnerVars

\* browser.newPage settles, line 262: page.setUserAgent is called, or the
\* rejection reaches the catch block
PNewPage ==
    /\ pc = "newPage"
    /\ \E o \in NewPageOutcomes :
          IF o.kind = "value"
          THEN pc' = "setUserAgent" /\ UNCHANGED caught
          ELSE Throw(o.e)
    /\ UNCHANGED <<variant, token, chatId, delivered, posted, script, firstRun, npc, callLog, raw, cleaned, warned,
                   message, report, page, exitCode, browser>>
    /\ UNCHANGED runnerVars

\* page.setUserAgent settles, lines 265-270: the navigation starts, or the
\* rejection reaches the catch block
PSetUserAgent ==
    /\ pc = "setUserAgent"
    /\ \E o \in SetUserAgentOutcomes :
          IF o.kind = "value"
          THEN /\ pc' = "fetching"
               /\ EnterRetry("navigate", MAX_RETRIES)
               /\ UNCHANGED caught
          ELSE /\ Throw(o.e)
               /\ UNCHANGED runnerVars
    /\ UNCHANGED <<variant, token, chatId, delivered, posted, script, firstRun, npc, callLog, raw, cleaned, warned,
                   message, report, page, exitCode, browser>>

\* outcomes of page.evaluate: the value the page function returns, or a failure
EvaluateOutcomes(i) ==
    {Resolved(Value(page, TRUE, i)),
     Rejected(PuppeteerError("Error", "Execution context was destroyed", i))}

\* page.goto settles, lines 272-278: page.waitForSelector is called, or the
\* rejection ends the invocation
PGoto ==
    /\ rpc = "await"
    /\ npc = "goto"
    /\ \E o \in GotoOutcomes(attempt) :
          IF o.kind = "value"
          THEN /\ page' = o.v.page
               /\ npc' = "wait"
               /\ callLog' = Append(callLog, "waitForSelector")
               /\ UNCHANGED runnerVars
          ELSE /\ Settle(o)
               /\ npc' = "idle"
               /\ UNCHANGED <<page, callLog>>
    /\ UNCHANGED <<variant, token, chatId, delivered, posted, script, firstRun, pc, raw, cleaned, warned, message,
                   report, exitCode, browser, caught>>

\* page.waitForSelector settles, lines 278-280: page.evaluate is called, or a
\* TimeoutError ends the invocation
PWaitForSelector ==
    /\ rpc = "await"
    /\ npc = "wait"
    /\ IF page.hasElement
       THEN /\ npc' = "evaluate"
            /\ callLog' = Append(callLog, "evaluate")
            /\ UNCHANGED runnerVars
       ELSE /\ Settle(Rejected(PuppeteerError("TimeoutError", "Waiting for selector failed",
                                              attempt)))
            /\ npc' = "idle"
            /\ UNCHANGED callLog
    /\ UNCHANGED runVars
    /\ UNCHANGED <<delivered, posted>>

\* page.evaluate settles, lines 280-284: the element's innerText or null is
\* the value of the invocation, or the rejection ends it
PEvaluate ==
    /\ rpc = "await"
    /\ npc = "evaluate"
    /\ \E o \in EvaluateOutcomes(attempt) : Settle(o)
    /\ npc' = "idle"
    /\ UNCHANGED callLog
    /\ UNCHANGED runVars
    /\ UNCHANGED <<delivered, posted>>

\* retryRequest returned jackpotValueRaw
PNavigated ==
    /\ pc = "fetching"
    /\ rpc = "returned"
    /\ raw' = IF result.page.isNull THEN Null ELSE Str(result.page.text)
    /\ pc' = "cleaning"
    /\ UNCHANGED <<variant, token, chatId, delivered, posted, script, firstRun, npc, callLog, cleaned, warned, message,
                   report, exitCode, browser, page, caught>>
    /\ UNCHANGED runnerVars

\* cleanJackpotValue, the message, and the send starts
PClean ==
    /\ pc = "cleaning"
    /\ callLog' = Append(callLog, "clean")
    /\ LET r == cleanJackpotValueP(raw)
       IN  IF r.threw
           THEN /\ Throw(r.err)
                /\ UNCHANGED <<cleaned, message>>
                /\ UNCHANGED runnerVars
           ELSE /\ cleaned' = r.value
                /\ message' = Format(r.value)
                /\ pc' = "sending"
                /\ EnterRetry("send", MAX_RETRIES)
                /\ UNCHANGED caught
    /\ UNCHANGED <<variant, token, chatId, delivered, posted, script, firstRun, npc, raw, warned, report, exitCode,
                   browser, page>>

\* sendTelegramMessage returned, lines 290-296: the success line is printed and
\* the finally block calls browser.close
PSendReturned ==
    /\ pc = "sending"
    /\ rpc = "returned"
    /\ pc' = "closing"
    /\ UNCHANGED <<variant, token, chatId, delivered, posted, script, firstRun, npc, callLog, raw, cleaned, warned,
                   message, report, page, caught, exitCode, browser>>
    /\ UNCHANGED runnerVars

\* browser.close settles, line 296: the run is over with status 0, or the
\* rejection, raised in the finally block, is handled by nobody and ends the
\* process with the browser open
PClose ==
    /\ pc = "closing"
    /\ \E o \in CloseOutcomes :
          IF o.kind = "value"
          THEN /\ browser' = "closed"
               /\ exitCode' = "0"
          ELSE /\ exitCode' = UnhandledRejectionStatus
               /\ UNCHANGED browser
    /\ pc' = "done"
    /\ UNCHANGED <<variant, token, chatId, delivered, posted, script, firstRun, npc, callLog, raw, cleaned, warned,
                   message, report, page, caught>>
    /\ UNCHANGED runnerVars

\* the catch block: the message is printed and process.exit(1) ends the process
PCatchBlock ==
    /\ pc = "catch"
    /\ report' = [NoReport EXCEPT !.msg = caught.msg]
    /\ exitCode' = FailureStatus
    /\ pc' = "exited"
    /\ UNCHANGED <<variant, token, chatId, delivered, posted, script, firstRun, npc, callLog, raw, cleaned, warned,
                   message, browser, page, caught>>
    /\ UNCHANGED runnerVars

InitPuppeteer ==
    /\ variant = "puppeteer"
    /\ token \in BOOLEAN
    /\ chatId \in BOOLEAN
    /\ pc = "start"
    /\ rpc = "idle"
    /\ op = "none"
    /\ retries = 0
    /\ InitCommon

NextPuppeteer ==
    \/ PStart
    \/ PLaunch
    \/ PNewPage
    \/ PSetUserAgent
    \/ RetryInvoke
    \/ PGoto
    \/ PWaitForSelector
    \/ PEvaluate
    \/ RequestSettles
    \/ TimerFires
    \/ PNavigated
    \/ PClean
    \/ PSendReturned
    \/ PClose
    \/ RunnerThrew
    \/ PCatchBlock

SpecPuppeteer == InitPuppeteer /\ [][NextPuppeteer]_vars

-----------------------------------------------------------------------------
(* The send of both variants against the same stubbed axios.post: the stub   *)
(* produces the scripted outcome of each attempt, first for sendTelegramMessage *)
(* of jackpot.js, then for the one of the browser-automation variant         *)

\* what an attempt of axios.post may end in
Classes == {"ok", "rejected", "timeout", "dns", "refused", "5xx", "4xx"}

\* the outcome of axios.post for a class, at attempt i
ScriptOutcome(c, i) ==
    CASE c = "ok" -> Resolved(Value(NoPage, TRUE, i))
      [] c = "rejected" -> Resolved(Value(NoPage, FALSE, i))
      [] c = "timeout" -> Rejected(NetError("ETIMEDOUT", i))
      [] c = "dns" -> Rejected(NetError("ENOTFOUND", i))
      [] c = "refused" -> Rejected(NetError("ECONNREFUSED", i))
      [] c = "5xx" -> Rejected(HttpError(503, i))
      [] c = "4xx" -> Rejected(HttpError(400, i))

InitBackends ==
    /\ variant = "axios"
    /\ token = TRUE
    /\ chatId = TRUE
    /\ pc = "first"
    /\ rpc = "call"
    /\ op = "send"
    /\ retries = MAX_RETRIES
    /\ attempt = 0
    /\ npc = "idle"
    /\ script \in [1..(MAX_RETRIES + 1) -> Classes]
    /\ firstRun = NoRun
    /\ delivered = 0
    /\ posted = <<>>
    /\ trace = <<>>
    /\ slept = <<>>
    /\ diag = <<>>
    /\ result = NoValue
    /\ thrown = NoError
    /\ callLog = <<>>
    /\ raw = Null
    /\ cleaned = <<>>
    /\ warned = "none"
    /\ message = <<>>
    /\ report = NoReport
    /\ caught = NoError
    /\ page = NoPage
    /\ exitCode = "running"
    /\ browser = "none"

\* the stubbed axios.post settles as scripted for this attempt
ScriptedSettles ==
    /\ pc \in {"first", "second"}
    /\ rpc = "await"
    /\ Settle(RequestFn(op, ScriptOutcome(script[attempt + 1], attempt)))
    /\ posted' = Append(posted, ScriptOutcome(script[attempt + 1], attempt))
    /\ UNCHANGED <<callLog, npc, delivered>>
    /\ UNCHANGED runVars

\* the call under jackpot.js has ended: the same script is run through the
\* retryRequest and sendTelegramMessage of the browser-automation variant
NextBackend ==
    /\ pc = "first"
    /\ rpc \in {"returned", "threw"}
    /\ firstRun' = [ended |-> rpc, invocations |-> Len(trace), thrown |-> thrown]
    /\ variant' = "puppeteer"
    /\ pc' = "second"
    /\ EnterRetry("send", MAX_RETRIES)
    /\ callLog' = <<>>
    /\ posted' = <<>>
    /\ UNCHANGED <<token, chatId, delivered, script, npc, raw, cleaned, warned,
                   message, report, exitCode, browser, page, caught>>

NextBackends == RetryInvoke \/ ScriptedSettles \/ TimerFires \/ NextBackend

SpecBackends == InitBackends /\ [][NextBackends]_vars

-----------------------------------------------------------------------------
(* Properties of retryRequest, checked under SpecRetry *)

RECURSIVE Sum(_)
Sum(q) == IF q = <<>> THEN 0 ELSE Head(q) + Sum(Tail(q))

\* retryRequest has returned or thrown
RetryEnded == rpc \in {"returned", "threw"}

\* number of requestFn invocations so far, in the harness
Invocations == Len(callLog)

Failed(i) == trace[i].kind = "error"

\* the classification as the specification words it
RetriableAsSpecified(e) ==
    \/ e.code = "ECONNABORTED"
    \/ e.code = "ETIMEDOUT"
    \/ e.code = "ENOTFOUND"
    \/ e.code = "ECONNREFUSED"
    \/ (e.hasResponse /\ ~(e.status < 500))

\* C1: a failed attempt (0-based i-1) is followed by another invocation if and
\* only if it is not the last attempt and its failure is retriable: a code among
\* ECONNABORTED, ETIMEDOUT, ENOTFOUND, ECONNREFUSED, or a response status >= 500.
C1_RetryIffRetriable ==
    \A i \in 1..Len(trace) :
        Failed(i) =>
            /\ Invocations > i => (i - 1 < retries /\ RetriableAsSpecified(trace[i].e))
            /\ (RetryEnded /\ i - 1 < retries /\ RetriableAsSpecified(trace[i].e))
                   => Invocations > i

\* a status-500 failure was retried and a status-499 failure, with retries left, was not
C1_Witness ==
    /\ rpc = "threw"
    /\ retries = 3
    /\ Len(trace) = 2
    /\ trace[1].e.hasResponse /\ trace[1].e.status = 500
    /\ trace[2].e.hasResponse /\ trace[2].e.status = 499

AllRetriableFailures ==
    \A i \in 1..Len(trace) : Failed(i) /\ RetriableAsSpecified(trace[i].e)

\* C2: when every attempt fails with a retriable classification, the operation
\* is invoked exactly retries+1 times and the error raised is the one of the
\* last attempt, unchanged.
C2_ExhaustionRaisesLastError ==
    AllRetriableFailures =>
        /\ Invocations <= retries + 1
        /\ RetryEnded =>
              /\ rpc = "threw"
              /\ Invocations = retries + 1
              /\ Len(trace) = retries + 1
              /\ thrown = trace[retries + 1].e
              /\ thrown.at = retries

\* four retriable failures with retries = 3: the fourth error is raised
C2_Witness ==
    /\ rpc = "threw"
    /\ retries = 3
    /\ Invocations = 4
    /\ AllRetriableFailures
    /\ thrown.at = 3
    /\ trace[1].e.code # trace[4].e.code

\* C3: an attempt that fails with a terminal classification is the last
\* invocation of the call, no sleep follows it, and its error is raised unmodified.
C3_TerminalFailureStops ==
    \A i \in 1..Len(trace) :
        (Failed(i) /\ ~RetriableAsSpecified(trace[i].e)) =>
            /\ i = Len(trace)
            /\ Invocations = i
            /\ Len(slept) = i - 1
            /\ rpc = "threw"
            /\ thrown = trace[i].e

\* a 404 at the third attempt, after two retried failures, with one retry left
C3_Witness ==
    /\ rpc = "threw"
    /\ retries = 3
    /\ Len(trace) = 3
    /\ trace[3].e.hasResponse /\ trace[3].e.status = 404
    /\ Invocations = 3

\* C4: an attempt that succeeds is the last invocation of the call and
\* retryRequest returns that attempt's result; it returns nothing else.
C4_SuccessReturnsThatResult ==
    /\ \A i \in 1..Len(trace) :
          trace[i].kind = "value" =>
              /\ i = Len(trace)
              /\ Invocations = i
              /\ rpc = "returned"
              /\ result = trace[i].v
              /\ result.at = i - 1
    /\ rpc = "returned" => (trace # <<>> /\ trace[Len(trace)].kind = "value")

\* success at the third attempt: the third attempt's value is returned
C4_Witness ==
    /\ rpc = "returned"
    /\ Len(trace) = 3
    /\ result.at = 2
    /\ result.ok

\* C5: the sleep after the failed retriable attempt i (0-based) is RETRY_DELAY * 2^i
\* and precedes the next invocation; k retriable failures followed by a success
\* make k+1 invocations and a total backoff of RETRY_DELAY * (2^k - 1).
C5_ExponentialBackoff ==
    /\ \A j \in 1..Len(slept) : slept[j] = RETRY_DELAY * 2^(j - 1)
    /\ Invocations <= Len(slept) + 1
    /\ rpc = "returned" =>
          LET k == Len(trace) - 1
          IN  /\ Invocations = k + 1
              /\ Len(slept) = k
              /\ Sum(slept) = RETRY_DELAY * (2^k - 1)

\* two failures then success: 3 invocations, sleeps of 2000 and 4000 ms
C5_Witness ==
    /\ rpc = "returned"
    /\ Invocations = 3
    /\ slept = <<2000, 4000>>
    /\ Sum(slept) = RETRY_DELAY + 2 * RETRY_DELAY


-----------------------------------------------------------------------------
(* Properties of scrapeAndNotify, checked under Spec, FairSpec, SpecClean and *)
(* SpecPuppeteer                                                              *)

\* number of invocations of collaborator x in the run so far
CountOf(x) == Cardinality({i \in 1..Len(callLog) : callLog[i] = x})

Rank(x) ==
    CASE x = "fetch" -> 1
      [] x = "locate" -> 2
      [] x = "clean" -> 3
      [] x = "send" -> 4
      [] OTHER -> 0

\* C6: the collaborators are invoked in the order fetch, locate, normalize, send;
\* the lookup and the normalisation happen at most once; the lookup follows a
\* successful fetch, the normalisation a found element, and the sender is
\* invoked only with the message built from the value cleanJackpotValue returned.
C6_StagesInOrder ==
    /\ \A i, j \in 1..Len(callLog) : i < j => Rank(callLog[i]) <= Rank(callLog[j])
    /\ CountOf("locate") <= 1
    /\ CountOf("clean") <= 1
    /\ CountOf("locate") > 0 => (page.loaded /\ CountOf("fetch") >= 1)
    /\ CountOf("clean") > 0 =>
          (CountOf("locate") = 1 /\ page.hasElement /\ raw = Str(page.text))
    /\ CountOf("send") > 0 =>
          /\ CountOf("clean") = 1
          /\ cleaned # <<>>
          /\ message = <<"*">> \o cleaned \o <<"*">>

\* a run with a retried fetch and a retried send, all four stages in order
C6_Witness ==
    /\ pc = "done"
    /\ callLog = <<"fetch", "fetch", "locate", "clean", "send", "send">>

\* a stage of the run has raised an error
RunFailed ==
    \/ pc \in {"catch", "exited"}
    \/ (pc \in {"fetching", "sending"} /\ rpc = "threw")

\* C7: once a stage has raised an error no collaborator is invoked again and
\* the run can only end with status 1; the status is 0 exactly when the run is
\* done, which happens only after the send runner returned.
C7_FirstFailureIsFinal ==
    /\ [](exitCode = "0" <=> pc = "done")
    /\ [](pc = "done" => (op = "send" /\ rpc = "returned" /\ result.ok))
    /\ [](pc = "exited" => exitCode = "1")
    /\ []((op = "send" /\ rpc = "returned") => pc \in {"sending", "done"})
    /\ [][RunFailed => (RunFailed' /\ callLog' = callLog /\ exitCode' \in {exitCode, "1"})]_vars

\* the send stage failed after four attempts and the process ended with status 1
C7_Witness ==
    /\ pc = "exited"
    /\ exitCode = "1"
    /\ op = "send"
    /\ Len(trace) = 4
    /\ report.code = "ECONNABORTED"

Fetchers == {"fetch", "goto"}
Locators == {"locate", "waitForSelector"}

\* C8: when the page was loaded and the lookup found no element, the lookup was
\* invoked exactly once, no fetch follows it, cleanJackpotValue and the sender
\* are not invoked, and the run fails with the element-not-found error.
C8_MissingElementFailsOnce ==
    LET lookups == {i \in 1..Len(callLog) : callLog[i] \in Locators}
    IN  (page.loaded /\ ~page.hasElement /\ lookups # {}) =>
            /\ Cardinality(lookups) = 1
            /\ \A i \in lookups : \A j \in (i + 1)..Len(callLog) : callLog[j] \notin Fetchers
            /\ CountOf("clean") = 0
            /\ CountOf("send") = 0
            /\ pc \in {"catch", "exited"} => caught = ElementNotFound

\* C9: if every await completes, the run ends in done or exited, and it makes at
\* most MAX_RETRIES+1 fetches, one lookup, one normalisation and MAX_RETRIES+1 sends.
C9_RunEndsAfterOnePass ==
    /\ <>(pc \in {"done", "exited"})
    /\ [](/\ CountOf("fetch") <= MAX_RETRIES + 1
          /\ CountOf("locate") <= 1
          /\ CountOf("clean") <= 1
          /\ CountOf("send") <= MAX_RETRIES + 1)

\* a run that used every fetch attempt and every send attempt and succeeded
C9_Witness ==
    /\ pc = "done"
    /\ CountOf("fetch") = MAX_RETRIES + 1
    /\ CountOf("send") = MAX_RETRIES + 1
    /\ CountOf("locate") = 1
    /\ CountOf("clean") = 1

DigitFree(s) == \A i \in 1..Len(s) : s[i] \notin Digits

\* some occurrence of the marker has no digit before it (then neither has the first)
NoDigitBeforeMarker(s) ==
    \E k \in 1..(Len(s) - 3) :
        /\ <<s[k], s[k + 1], s[k + 2], s[k + 3]>> = Marker
        /\ DigitFree(SubSeq(s, 1, k - 1))

Normalized == CountOf("clean") > 0

\* C10 as stated: every raw extract without a digit, or without a digit before
\* its first marker, fails with the no-digits error.
C10_DigitFreeAlwaysNoDigitsError ==
    (Normalized /\ (DigitFree(raw.text) \/ NoDigitBeforeMarker(raw.text))) =>
        caught.msg = "Cleaned value contains no digits"

\* C10, amended: cleanJackpotValue returns no value without a digit; a non-empty
\* raw extract without a digit, or without a digit before its first marker, fails
\* with the no-digits error and an empty one with the empty-input error; no
\* message is sent whose embedded value lacks a digit.
C10_NoDigitFreeValue ==
    /\ cleaned # <<>> => ~DigitFree(cleaned)
    /\ CountOf("send") > 0 => (~DigitFree(message) /\ ~DigitFree(cleaned))
    /\ (Normalized /\ raw.text # <<>>
            /\ (DigitFree(raw.text) \/ NoDigitBeforeMarker(raw.text))) =>
          /\ pc \in {"catch", "exited"}
          /\ caught.msg = "Cleaned value contains no digits"
          /\ cleaned = <<>>
          /\ CountOf("send") = 0
    /\ (Normalized /\ raw.text = <<>>) =>
          /\ pc \in {"catch", "exited"}
          /\ caught.msg = "Raw jackpot value is empty"
          /\ cleaned = <<>>
          /\ CountOf("send") = 0

\* a raw extract whose only digit follows the marker failed with the no-digits error
C10_Witness ==
    /\ pc = "exited"
    /\ raw.text = RawDigitAfter
    /\ report.msg = "Cleaned value contains no digits"
    /\ CountOf("send") = 0

-----------------------------------------------------------------------------
(* cleanJackpotValue called on its own *)

\* what the last call of cleanJackpotValue did
CallOutcome == [threw |-> pc = "threw", err |-> caught, value |-> cleaned,
                warn |-> warned]

\* C11: for every raw extract that is empty or absent, cleanJackpotValue fails
\* with the empty-input error, returns nothing and warns of nothing; the
\* failure is never the no-digits error.
C11_EmptyFailsFirst ==
    (pc \in {"returned", "threw"} /\ (raw.isNull \/ raw.text = <<>>)) =>
        /\ pc = "threw"
        /\ caught = PlainError("Raw jackpot value is empty", 0)
        /\ caught.msg # "Cleaned value contains no digits"
        /\ cleaned = <<>>
        /\ warned = "none"

\* an absent extract was rejected with the empty-input error
C11_Witness ==
    /\ pc = "threw"
    /\ raw.isNull
    /\ caught.msg = "Raw jackpot value is empty"

MarkerAt(s, k) == k + 3 <= Len(s) /\ <<s[k], s[k + 1], s[k + 2], s[k + 3]>> = Marker
HasMarker(s) == \E k \in 1..Len(s) : MarkerAt(s, k)

\* the text before the first marker of a text that has one
BeforeMarker(s) ==
    LET k == CHOOSE i \in 1..Len(s) : MarkerAt(s, i) /\ \A j \in 1..(i - 1) : ~MarkerAt(s, j)
    IN  SubSeq(s, 1, k - 1)

NotSpace(c) == c \notin WhiteSpace
\* the characters of s that are not white space, in order
Squeeze(s) == SelectSeq(s, NotSpace)

EndsWithSuffix(c) ==
    Len(c) >= Len(Suffix) /\ SubSeq(c, Len(c) - Len(Suffix) + 1, Len(c)) = Suffix
WithoutSuffix(c) == SubSeq(c, 1, Len(c) - Len(Suffix))

\* texts that may follow the marker
Trailers == {<<>>, <<"7">>, <<" ", "a", "n", "d", " ", "7">>, Marker,
             <<"9", " ", "l", "e", "v", "a", " ", "x">>}

\* C12: for a raw extract with the marker the outcome is the outcome of every
\* other extract with the same text before its first marker, whatever follows
\* the marker, and of that text alone when it is not empty; the returned value
\* is made of that text only. A raw extract without the marker that has a digit
\* is returned whole.
C12_OnlyTextBeforeMarkerCounts ==
    (pc \in {"returned", "threw"} /\ ~raw.isNull) =>
        /\ HasMarker(raw.text) =>
              LET before == BeforeMarker(raw.text)
              IN  /\ \A t \in Trailers :
                        cleanJackpotValue(Str(before \o Marker \o t)) = CallOutcome
                  /\ before # <<>> => cleanJackpotValue(Str(before)) = CallOutcome
                  /\ pc = "returned" =>
                        /\ EndsWithSuffix(cleaned)
                        /\ Squeeze(WithoutSuffix(cleaned)) = Squeeze(before)
        /\ (~HasMarker(raw.text) /\ \E i \in 1..Len(raw.text) : raw.text[i] \in Digits) =>
              /\ pc = "returned"
              /\ EndsWithSuffix(cleaned)
              /\ Squeeze(WithoutSuffix(cleaned)) = Squeeze(raw.text)

\* the text after the marker of the extract is gone from the returned value
C12_Witness ==
    /\ pc = "returned"
    /\ raw.text = RawTrailing
    /\ cleaned = <<"6", " ", "0", "0", "0", " ", "0", "0", "0", " ", "l", "v", ".">>

\* s has white space other than single spaces between its tokens
Irregular(s) ==
    \/ \E i \in 1..Len(s) : s[i] \in WhiteSpace \ {" "}
    \/ \E i \in 1..(Len(s) - 1) : s[i] \in WhiteSpace /\ s[i + 1] \in WhiteSpace
    \/ (s # <<>> /\ (s[1] \in WhiteSpace \/ s[Len(s)] \in WhiteSpace))

\* single spaces between tokens, no other white space, none at either end
WhitespaceCanonical(c) ==
    /\ \A i \in 1..Len(c) : c[i] \in WhiteSpace => c[i] = " "
    /\ \A i \in 1..(Len(c) - 1) : ~(c[i] = " " /\ c[i + 1] = " ")
    /\ c # <<>> /\ c[1] # " " /\ c[Len(c)] # " "

\* number of places where the suffix occurs in c
SuffixCount(c) ==
    Cardinality({k \in 1..Len(c) :
        k + 3 <= Len(c) /\ <<c[k], c[k + 1], c[k + 2], c[k + 3]>> = Suffix})

\* C13: for every raw extract with irregular white space on which
\* cleanJackpotValue succeeds, the returned value has single spaces between
\* tokens, no other white space, none at either end, and the suffix exactly
\* once, at the end.
C13_SingleSpacesOneSuffix ==
    (pc = "returned" /\ Len(callLog) = 1 /\ Irregular(raw.text)) =>
        /\ WhitespaceCanonical(cleaned)
        /\ EndsWithSuffix(cleaned)
        /\ SuffixCount(cleaned) = 1

\* C14: a value returned by cleanJackpotValue and handed to it again comes
\* back with exactly one occurrence of the suffix.
C14_FeedBackKeepsOneSuffix ==
    (pc = "returned" /\ Len(callLog) >= 2) => SuffixCount(cleaned) = 1

\* C15: for every raw extract that passes the digit check the run receives the
\* canonical value whatever the warning was, no error comes from
\* cleanJackpotValue, the message is built from the value, and the sender is
\* invoked next; only the send can still fail the run.
C15_VerdictNeverBlocks ==
    (Normalized /\ raw.text # <<>> /\ ~DigitFree(raw.text)
            /\ ~NoDigitBeforeMarker(raw.text)) =>
        /\ cleaned = AddSuffix(NormalizeSpace(Truncate(raw.text)))
        /\ warned \in {"none", "low", "high"}
        /\ message = <<"*">> \o cleaned \o <<"*">>
        /\ op = "send"
        /\ \/ (pc = "sending" /\ rpc = "call" /\ attempt = 0)
           \/ CountOf("send") >= 1
        /\ pc \in {"catch", "exited"} =>
              /\ CountOf("send") >= 1
              /\ caught = thrown
              /\ caught = trace[Len(trace)].e

\* a value with the high warning was sent and the run succeeded
C15_Witness ==
    /\ pc = "done"
    /\ raw.text = RawHigh
    /\ warned = "high"
    /\ CountOf("send") >= 1

DotCount(s) == Cardinality({i \in 1..Len(s) : s[i] = "."})
DigitsOf(s) == SelectSeq(s, IsDigit)

\* where the decimal separator of v is; past the end when v has none
DotAt(v) ==
    IF DotCount(v) = 0 THEN Len(v) + 1 ELSE CHOOSE i \in 1..Len(v) : v[i] = "."

\* a run of digits without its leading zeros
StripZeros[s \in Text] ==
    IF s # <<>> /\ Head(s) = "0" THEN StripZeros[Tail(s)] ELSE s

\* the magnitude m of a value with at most one decimal separator, in decimal
\* notation: the digits of its whole part, and whether its fraction is more
\* than zero
WholePart(v) == StripZeros[DigitsOf(SubSeq(v, 1, DotAt(v) - 1))]
HasFraction(v) ==
    \E i \in (DotAt(v) + 1)..Len(v) : v[i] \in Digits \ {"0"}

\* m < 1000: the whole part has at most three digits
BelowLowBound(v) == Len(WholePart(v)) <= 3

\* m > 100000000: the whole part has more than nine digits, or nine digits
\* that are not 100000000, or it is 100000000 and there is a fraction
AboveHighBound(v) ==
    \/ Len(WholePart(v)) > 9
    \/ /\ Len(WholePart(v)) = 9
       /\ \/ WholePart(v) # <<"1", "0", "0", "0", "0", "0", "0", "0", "0">>
          \/ HasFraction(v)

\* the number of digits after the decimal separator of v
FractionDigits(v) == Cardinality({i \in (DotAt(v) + 1)..Len(v) : v[i] \in Digits})

\* C16: for a returned value whose text before the suffix has at most one
\* decimal separator, with m the magnitude parseFloat reads from its digits
\* (spaces and other characters skipped): a low warning comes only with digits
\* that denote less than 1000 and a high warning only with digits that denote
\* more than 100000000; when parseFloat reads the digits exactly (here: at
\* most six of them after the separator) the warning is low exactly when
\* m < 1000, high exactly when m > 100000000 and there is none otherwise, so
\* 1000, 100000000 and 5 000 000 give no warning; digits that denote a number
\* next to a limit and are read as the limit itself, 100000000.000000001 and
\* 999.9999999999999999, give no warning either.
C16_VerdictBoundaries ==
    (pc = "returned" /\ DotCount(WithoutSuffix(cleaned)) <= 1) =>
        LET v == WithoutSuffix(cleaned)
        IN  /\ warned \in {"low", "high", "none"}
            /\ warned = "low" => BelowLowBound(v)
            /\ warned = "high" => AboveHighBound(v)
            /\ FractionDigits(v) <= 6 =>
                  /\ BelowLowBound(v) => warned = "low"
                  /\ AboveHighBound(v) => warned = "high"
            /\ (Len(callLog) = 1 /\ raw.text \in {RawRoundedHigh, RawRoundedLow}) =>
                  warned = "none"

\* the value 1 000 was returned without a warning
C16_Witness ==
    /\ pc = "returned"
    /\ raw.text = RawAtLow
    /\ cleaned = <<"1", " ", "0", "0", "0", " ", "l", "v", ".">>
    /\ warned = "none"

\* C17: a returned value whose text has more than one decimal separator, such
\* as the dot-grouped 1.234.567, gets no low or high warning.
C17_IllFormedNumberNoWarning ==
    (pc = "returned" /\ DotCount(WithoutSuffix(cleaned)) > 1) => warned = "none"

-----------------------------------------------------------------------------
(* The credential check, and more of retryRequest *)

\* C18: when the token or the chat id is missing the run invokes no fetch, no
\* lookup, no normalisation and no send, enters retryRequest never, and can
\* only end with status 1.
C18_MissingCredentialStopsFirst ==
    (~token \/ ~chatId) =>
        /\ callLog = <<>>
        /\ trace = <<>>
        /\ rpc = "idle"
        /\ pc \in {"start", "exited"}
        /\ pc = "exited" => exitCode = "1"
        /\ exitCode \in {"running", "1"}

\* the run ended with status 1 although the token was set: the chat id was not
C18_Witness ==
    /\ pc = "exited"
    /\ exitCode = "1"
    /\ token
    /\ ~chatId

\* C19: with retries = 0 the operation is invoked once and never again, nothing
\* is slept, and the call ends with that one outcome: its value returned, or
\* its error raised unchanged whatever its classification.
C19_ZeroRetriesOneAttempt ==
    retries = 0 =>
        /\ Invocations <= 1
        /\ Len(trace) <= 1
        /\ slept = <<>>
        /\ rpc # "sleep"
        /\ Len(trace) = 1 =>
              /\ RetryEnded
              /\ Invocations = 1
              /\ trace[1].kind = "value" => (rpc = "returned" /\ result = trace[1].v)
              /\ trace[1].kind = "error" => (rpc = "threw" /\ thrown = trace[1].e)

\* a retriable failure was raised after the only attempt
C19_Witness ==
    /\ retries = 0
    /\ rpc = "threw"
    /\ Invocations = 1
    /\ thrown = NetError("ETIMEDOUT", 0)

\* C20: every diagnostic comes with a sleep and belongs to one failed attempt
\* that had retries left and a retriable error; while an invocation is in
\* flight and when the call has ended there is one diagnostic and one sleep
\* fewer than invocations, so the final failure, a terminal failure and a
\* success have none; the error raised is the one of the last attempt.
C20_DiagnosticPerRetry ==
    /\ Len(diag) = Len(slept)
    /\ \A i \in 1..Len(diag) :
          /\ i <= Len(trace)
          /\ Failed(i)
          /\ RetriableAsSpecified(trace[i].e)
          /\ i - 1 < retries
          /\ diag[i].attempt = i
          /\ diag[i].total = retries + 1
          /\ diag[i].at = trace[i].e.at
          /\ diag[i].delay = slept[i]
    /\ rpc \in {"await", "returned", "threw"} => Len(diag) = Invocations - 1
    /\ rpc \in {"call", "sleep"} => Len(diag) = Invocations
    /\ rpc = "threw" => thrown = trace[Len(trace)].e
    /\ rpc = "returned" => result = trace[Len(trace)].v

\* three retried failures and a final one: three diagnostics, four invocations
C20_Witness ==
    /\ rpc = "threw"
    /\ retries = 3
    /\ Invocations = 4
    /\ Len(diag) = 3
    /\ Len(slept) = 3
    /\ diag[3].attempt = 3

-----------------------------------------------------------------------------
(* The send stage, the failure report and the browser *)

\* the endpoint answered the i-th axios.post of the send stage with a response
\* whose body has ok false
EndpointRejected(i) == posted[i].kind = "value" /\ ~posted[i].v.ok

\* C22: a send answered with ok false is the last send invocation, the runner
\* raises an error for it, and the run never ends with status 0.
C22_RejectionIsTerminalFailure ==
    \A i \in 1..Len(posted) :
        EndpointRejected(i) =>
            /\ op = "send"
            /\ i = Len(posted)
            /\ Len(trace) = i
            /\ rpc = "threw"
            /\ pc \in {"sending", "catch", "exited"}
            /\ exitCode # "0"

\* what the catch block prints of an error: type, message, status and response
\* data, code and stack trace
Printed(r) == [name |-> r.name, msg |-> r.msg, code |-> r.code,
               hasResponse |-> r.hasResponse, status |-> r.status,
               data |-> r.data, stack |-> r.stack]

\* every report a failed send stage can end in
SendFailureReports ==
    {Printed(Report(x.e, x.d, x.st)) :
        x \in UNION {{[e |-> RequestFn("send", o).e, d |-> d, st |-> st] :
                        d \in Bodies(RequestFn("send", o).e, "send"),
                        st \in Stacks(RequestFn("send", o).e, "send")} :
                     o \in {y \in UNION {PostOutcomes(i) : i \in 0..MAX_RETRIES} :
                               RequestFn("send", y).kind = "error"}}}

\* C23: the report of a run that failed in the fetch stage tells the stage: it
\* is none of the reports a failure of the send stage produces, also when both
\* stages failed with the same network error.
C23_ReportTellsFetchFromSend ==
    (pc = "exited" /\ op = "fetch" /\ rpc = "threw") =>
        Printed(report) \notin SendFailureReports

\* the same for the reports whose stack trace holds the awaiting functions:
\* those differ from every report of a failed send
FetchReportWithCallPathDiffers ==
    (pc = "exited" /\ op = "fetch" /\ rpc = "threw" /\ Len(report.stack) > 1) =>
        Printed(report) \notin SendFailureReports

\* C24: the endpoint accepts the message of a run at most once, and a send
\* invocation that reported success is the last one.
C24_DeliveredAtMostOnce ==
    /\ delivered <= 1
    /\ op = "send" =>
          \A i \in 1..Len(trace) :
              trace[i].kind = "value" => (i = Len(trace) /\ CountOf("send") = i)

\* C25: a run of the browser-automation variant that launched the browser has
\* closed it when the process has ended, whether it succeeded or failed.
C25_BrowserClosedAtEnd ==
    (variant = "puppeteer" /\ pc \in {"done", "exited"} /\ browser # "none") =>
        browser = "closed"

\* C21: for the same outcomes of the send attempts (success, rejection by the
\* endpoint, timeout, DNS failure, connection refused, HTTP 5xx, HTTP 4xx) the
\* runner of the browser-automation variant makes as many invocations as the
\* runner of jackpot.js did, ends the same way and raises the same error.
C21_BackendsRetryAlike ==
    (pc = "second" /\ rpc \in {"returned", "threw"}) =>
        /\ Len(trace) = firstRun.invocations
        /\ rpc = firstRun.ended
        /\ thrown = firstRun.thrown

=============================================================================
